---- MODULE Spec2Model ----
(***************************************************************************)
(* Model of MemoryManager (src/MemoryManager.h, src/MemoryManager.cpp):    *)
(* a word-granular allocator over a private arena.  The ledger is the      *)
(* std::deque<Region> memory_regions, the allocation index is the          *)
(* unordered_map allocation_table, the placement strategies are bestFit    *)
(* and worstFit.                                                           *)
(*                                                                         *)
(* Integer widths are scaled by 1/4 so that wrap-around is within reach of *)
(* explicit-state checking: uint16_t (16 bits) is FieldBits = 4, int and   *)
(* unsigned (32 bits) are IntBits = 8, size_t and pointers (64 bits) are   *)
(* SizeBits = 16.  Every conversion is computed modulo its width, as the   *)
(* generated code does.                                                    *)
(*                                                                         *)
(* The build is g++ -std=c++17 (src/unnamed/part_000), i.e. libstdc++.     *)
(* Two places of the source use a deque iterator after an operation that   *)
(* invalidates it:                                                         *)
(*  - allocate writes through region_it after emplace_back (lines 91-100). *)
(*    A deque never relocates elements on emplace_back and the iterator's  *)
(*    operator-> uses only the element pointer, so the write lands on the  *)
(*    chosen region.                                                       *)
(*  - merge_adjacent_regions keeps using current after erase(next)         *)
(*    (lines 27-29).  libstdc++'s deque::erase shifts the FRONT part of    *)
(*    the deque one slot towards the back and pops the front when the      *)
(*    erased index is below size()/2, otherwise it shifts the tail and     *)
(*    pops the back.  The sweep is therefore modelled on the slots of the  *)
(*    deque's buffer (Sweep below), not on an abstract sequence.           *)
(***************************************************************************)
EXTENDS Integers, Sequences, FiniteSets, TLC

(* ------------------------------ widths -------------------------------- *)
FieldBits == 4
IntBits == 8
SizeBits == 16

FieldMod == 2 ^ FieldBits
IntMod == 2 ^ IntBits
SizeMod == 2 ^ SizeBits

\* conversion to uint16_t
ToField(x) == x % FieldMod
\* conversion to size_t / uintptr_t (also of a negative int: sign extension)
ToSize(x) == x % SizeMod
\* conversion to int (two's complement)
ToInt(x) == LET m == x % IntMod IN IF m >= IntMod \div 2 THEN m - IntMod ELSE m
\* conversion to unsigned
ToUnsigned(x) == x % IntMod

(* ------------------------------ bounds -------------------------------- *)
MaxWords == 4
MaxBytes == 3
MaxRegions == 5
MaxPosition == 7
MaxHoles == 3
MaxBigRegions == 2
MaxField == 3
MaxAnswer == 3
MaxWide == 2

NULL == 0
WordSizes == {2}
Bases == {2}
Capacities == (MaxWords - 1)..MaxWords
Requests == 1..MaxBytes
Strategies == {"bestFit", "worstFit"}
\* addresses handed to free: null, below the arena, every byte of it, above it
Addresses == 0..(2 + 2 * MaxPosition + 1)

VARIABLES unit_size, selector, storage_area, total_capacity, memory_regions,
          allocation_table, last, live, roundtrip, fit

vars == <<unit_size, selector, storage_area, total_capacity, memory_regions,
          allocation_table, last, live, roundtrip, fit>>

Region(p, e, a) == [position |-> p, extent |-> e, available |-> a]

(* --------------------------- getList ---------------------------------- *)
\* std::pair operator<
PairLess(x, y) == x[1] < y[1] \/ (x[1] = y[1] /\ x[2] < y[2])

RECURSIVE InsertSorted(_, _)
InsertSorted(s, x) ==
  IF s = <<>> THEN <<x>>
  ELSE IF PairLess(x, Head(s)) THEN <<x>> \o s
  ELSE <<Head(s)>> \o InsertSorted(Tail(s), x)

RECURSIVE SortPairs(_)
SortPairs(s) == IF s = <<>> THEN <<>> ELSE InsertSorted(SortPairs(Tail(s)), Head(s))

RECURSIVE FreePairs(_)
FreePairs(regs) ==
  IF regs = <<>> THEN <<>>
  ELSE (IF Head(regs).available THEN << <<Head(regs).position, Head(regs).extent>> >> ELSE <<>>)
       \o FreePairs(Tail(regs))

RECURSIVE EncodePairs(_)
EncodePairs(ps) ==
  IF ps = <<>> THEN <<>>
  ELSE <<ToField(Head(ps)[1]), ToField(Head(ps)[2])>> \o EncodePairs(Tail(ps))

\* [count, pos1, size1, pos2, size2, ...] in uint16_t fields
getList(regs) ==
  LET free_regions == SortPairs(FreePairs(regs))
  IN <<ToField(Len(free_regions))>> \o EncodePairs(free_regions)

(* --------------------------- strategies ------------------------------- *)
HolePos(list, i) == list[2 * i]
HoleLen(list, i) == list[2 * i + 1]

RECURSIVE MinWaste_LastOnTie(_, _, _, _)
\* min_element with <= in place of <: the last hole of least waste wins
MinWaste_LastOnTie(list, need, i, best) ==
  IF i > list[1] THEN best
  ELSE IF HoleLen(list, i) >= need
          /\ (best = 0 \/ HoleLen(list, i) - need <= HoleLen(list, best) - need)
       THEN MinWaste_LastOnTie(list, need, i + 1, i)
       ELSE MinWaste_LastOnTie(list, need, i + 1, best)

RECURSIVE MinWaste(_, _, _, _)
\* std::min_element over the qualified holes: the first one of least waste
MinWaste(list, need, i, best) ==
  IF i > list[1] THEN best
  ELSE IF HoleLen(list, i) >= need
          /\ (best = 0 \/ HoleLen(list, i) - need < HoleLen(list, best) - need)
       THEN MinWaste(list, need, i + 1, i)
       ELSE MinWaste(list, need, i + 1, best)

bestFit(sizeInWords, list) ==
  IF list[1] = 0 THEN -1
  ELSE LET best == MinWaste(list, ToSize(sizeInWords), 1, 0)
       IN IF best = 0 THEN -1 ELSE ToInt(HolePos(list, best))

RECURSIVE MaxGap_LastOnTie(_, _, _, _, _)
\* >= in place of >: a later hole of equal size replaces the earlier one
MaxGap_LastOnTie(list, need, i, max_pos, biggest_gap) ==
  IF i > list[1] THEN max_pos
  ELSE IF HoleLen(list, i) >= need /\ HoleLen(list, i) >= biggest_gap
       THEN MaxGap_LastOnTie(list, need, i + 1, ToInt(HolePos(list, i)), HoleLen(list, i))
       ELSE MaxGap_LastOnTie(list, need, i + 1, max_pos, biggest_gap)

RECURSIVE MaxGap(_, _, _, _, _)
MaxGap(list, need, i, max_pos, biggest_gap) ==
  IF i > list[1] THEN max_pos
  ELSE IF HoleLen(list, i) >= need /\ HoleLen(list, i) > biggest_gap
       THEN MaxGap(list, need, i + 1, ToInt(HolePos(list, i)), HoleLen(list, i))
       ELSE MaxGap(list, need, i + 1, max_pos, biggest_gap)

worstFit(sizeInWords, list) ==
  IF list[1] = 0 THEN -1
  ELSE MaxGap(list, ToSize(sizeInWords), 1, -1, 0)

Select(s, sizeInWords, list) ==
  IF s = "bestFit" THEN bestFit(sizeInWords, list) ELSE worstFit(sizeInWords, list)

(* --------------------- merge_adjacent_regions ------------------------- *)
\* The deque's buffer during one sweep: slot i holds buf[i]; the live
\* elements are the slots b .. e-1; c is the slot current points to.
\* Slots below b keep the bytes of the popped elements (Region is trivially
\* destructible), which is what a stale iterator reads.
\* std::move_backward(begin, position, next): slots b..n-1 move to b+1..n
ShiftBack(buf, b, n) ==
  [i \in DOMAIN buf |-> IF i > b /\ i <= n THEN buf[i - 1] ELSE buf[i]]

\* std::move(next, end, position): slots n+1..e-1 move to n..e-2
ShiftFront(buf, n, e) ==
  [i \in DOMAIN buf |-> IF i >= n /\ i < e - 1 THEN buf[i + 1] ELSE buf[i]]

\* libstdc++ deque::_M_erase(position): index and size() compared as size_type
EraseFromFront(n, b, e) ==
  LET index == n - b
      size == e - b
  IN IF index >= 0 THEN (IF size >= 0 THEN index < size \div 2 ELSE TRUE)
     ELSE FALSE

RECURSIVE Sweep(_, _, _, _)
Sweep(buf, b, e, c) ==
  IF c = e - 1 THEN [buf |-> buf, b |-> b, e |-> e]
  ELSE LET n == c + 1 IN
       IF buf[c].available /\ buf[n].available
       THEN LET merged == [buf EXCEPT ![c].extent = ToSize(buf[c].extent + buf[n].extent)]
            IN IF EraseFromFront(n, b, e)
               THEN Sweep(IF n # b THEN ShiftBack(merged, b, n) ELSE merged, b + 1, e, c)
               ELSE Sweep(IF n + 1 # e THEN ShiftFront(merged, n, e) ELSE merged, b, e - 1, c)
       ELSE Sweep(buf, b, e, c + 1)

\* the ledger after merge_adjacent_regions; underflow: finish ended before start
merge_adjacent_regions(regs) ==
  IF Len(regs) < 2 THEN [regions |-> regs, underflow |-> FALSE]
  ELSE LET r == Sweep(regs, 1, Len(regs) + 1, 1)
       IN IF r.e < r.b THEN [regions |-> <<>>, underflow |-> TRUE]
          ELSE [regions |-> [i \in 1..(r.e - r.b) |-> r.buf[r.b + i - 1]], underflow |-> FALSE]

(* ----------------------------- helpers -------------------------------- *)
validate_address(addr) ==
  addr >= storage_area /\ addr < storage_area + ToSize(total_capacity * unit_size)

convert_to_words(bytes) == ToSize(bytes + unit_size - 1) \div unit_size

\* std::find_if: index of the first region at position p whose available
\* flag is a, 0 for end()
FindRegion(regs, p, a) ==
  LET Hit(i) == regs[i].position = p /\ regs[i].available = a
  IN IF \E i \in 1..Len(regs) : Hit(i)
     THEN CHOOSE i \in 1..Len(regs) : Hit(i) /\ \A j \in 1..(i - 1) : ~Hit(j)
     ELSE 0

MapPut(t, k, v) == [a \in DOMAIN t \cup {k} |-> IF a = k THEN v ELSE t[a]]
MapErase(t, k) == [a \in DOMAIN t \ {k} |-> t[a]]
EmptyMap == [a \in {} |-> 0]

\* a direct call of a strategy on a list: no call yet
NoFit == [sizeInWords |-> 0, list |-> <<0>>, strategy |-> "none", result |-> 0]
NoTrip == [active |-> FALSE, list |-> <<>>, addr |-> NULL, done |-> FALSE]
\* the record of a call: its argument, its return value and the ledger, the
\* index and the outstanding addresses it started from
\* answer: what the strategy returned to allocate (0 when it was not called)
CallWith(op, arg, ret, answer) ==
  [op |-> op, arg |-> arg, ret |-> ret, answer |-> answer,
   before |-> [regions |-> memory_regions, table |-> allocation_table, live |-> live]]

Call(op, arg, ret) == CallWith(op, arg, ret, 0)

(* ------------------------------ Init ---------------------------------- *)
Constructed ==
  /\ unit_size \in WordSizes
  /\ selector \in Strategies
  /\ storage_area = NULL
  /\ total_capacity = 0
  /\ memory_regions = <<>>
  /\ allocation_table = EmptyMap
  /\ live = {}
  /\ last = [op |-> "construct", arg |-> 0, ret |-> NULL, answer |-> 0,
             before |-> [regions |-> <<>>, table |-> EmptyMap, live |-> {}]]
  /\ roundtrip = NoTrip

Init == Constructed /\ fit = NoFit

(* ----------------------------- actions -------------------------------- *)
\* initialize that forgets allocation_table.clear() (and a shutdown that
\* leaves the index alone)
Initialize_KeepIndex(sizeInWords, base) ==
  /\ storage_area' = base
  /\ total_capacity' = sizeInWords
  /\ memory_regions' = <<Region(0, sizeInWords, TRUE)>>
  /\ allocation_table' = allocation_table
  /\ last' = Call("initialize", sizeInWords, NULL)
  /\ live' = {}
  /\ roundtrip' = NoTrip
  /\ UNCHANGED <<unit_size, selector, fit>>

\* initialize(sizeInWords): shutdown(), then a fresh arena at base
Initialize(sizeInWords, base) ==
  /\ storage_area' = base
  /\ total_capacity' = sizeInWords
  /\ memory_regions' = <<Region(0, sizeInWords, TRUE)>>
  /\ allocation_table' = EmptyMap
  /\ last' = Call("initialize", sizeInWords, NULL)
  /\ live' = {}
  /\ roundtrip' = NoTrip
  /\ UNCHANGED <<unit_size, selector, fit>>

\* shutdown that forgets memory_regions.clear()
Shutdown_KeepLedger ==
  /\ storage_area' = NULL
  /\ total_capacity' = 0
  /\ memory_regions' = memory_regions
  /\ allocation_table' = EmptyMap
  /\ last' = Call("shutdown", 0, NULL)
  /\ live' = {}
  /\ roundtrip' = NoTrip
  /\ UNCHANGED <<unit_size, selector, fit>>

Shutdown ==
  /\ storage_area' = NULL
  /\ total_capacity' = 0
  /\ memory_regions' = <<>>
  /\ allocation_table' = EmptyMap
  /\ last' = Call("shutdown", 0, NULL)
  /\ live' = {}
  /\ roundtrip' = NoTrip
  /\ UNCHANGED <<unit_size, selector, fit>>

SetAllocator(allocator) ==
  /\ selector' = allocator
  /\ last' = Call("setAllocator", 0, NULL)
  /\ roundtrip' = NoTrip
  /\ UNCHANGED <<unit_size, storage_area, total_capacity, memory_regions,
                 allocation_table, live, fit>>

\* the outcome of allocate(sizeInBytes) in the current state when the call
\* of selector returns chosen_offset
AllocateAt(sizeInBytes, chosen_offset) ==
  LET words_required == convert_to_words(sizeInBytes)
      region_it == FindRegion(memory_regions, ToSize(chosen_offset), TRUE)
      NoChange == [ret |-> NULL, regions |-> memory_regions, table |-> allocation_table]
  IN IF storage_area = NULL THEN NoChange
     ELSE IF chosen_offset = -1 THEN NoChange
     ELSE IF region_it = 0 THEN NoChange
     ELSE LET r == memory_regions[region_it]
              split == IF r.extent > words_required
                       THEN Append(memory_regions,
                                   Region(ToSize(r.position + words_required),
                                          r.extent - words_required, TRUE))
                       ELSE memory_regions
              sized == IF r.extent > words_required
                       THEN [split EXCEPT ![region_it].extent = words_required]
                       ELSE split
              allocated_memory == ToSize(storage_area + ToUnsigned(chosen_offset * unit_size))
          IN [ret |-> allocated_memory,
              regions |-> [sized EXCEPT ![region_it].available = FALSE],
              table |-> MapPut(allocation_table, allocated_memory, sizeInBytes)]

\* what the built-in strategy named by selector returns to allocate
Answer(sizeInBytes) ==
  IF storage_area = NULL THEN 0
  ELSE Select(selector, ToInt(convert_to_words(sizeInBytes)), getList(memory_regions))

\* the outcome of allocate(sizeInBytes) in the current state
AllocateResult(sizeInBytes) == AllocateAt(sizeInBytes, Answer(sizeInBytes))

Allocate(sizeInBytes) ==
  LET res == AllocateResult(sizeInBytes) IN
  /\ selector \in Strategies
  /\ Len(res.regions) <= MaxRegions
  /\ \A i \in 1..Len(res.regions) : res.regions[i].position <= MaxPosition
  /\ memory_regions' = res.regions
  /\ allocation_table' = res.table
  /\ last' = CallWith("allocate", sizeInBytes, res.ret, Answer(sizeInBytes))
  /\ live' = IF res.ret = NULL THEN live ELSE live \cup {res.ret}
  /\ roundtrip' = IF res.ret # NULL /\ allocation_table = EmptyMap /\ live = {}
                  THEN [active |-> TRUE, list |-> getList(memory_regions),
                        addr |-> res.ret, done |-> FALSE]
                  ELSE NoTrip
  /\ UNCHANGED <<unit_size, selector, storage_area, total_capacity, fit>>

\* free without the lookup in allocation_table: the owner is found by
\* offset alone
FreeResult_NoIndexCheck(address) ==
  LET offset == (address - storage_area) \div unit_size
      region_it == FindRegion(memory_regions, offset, FALSE)
      NoChange == [regions |-> memory_regions, table |-> allocation_table, underflow |-> FALSE]
  IN IF address = NULL \/ ~validate_address(address) THEN NoChange
     ELSE IF region_it = 0 THEN NoChange
     ELSE LET m == merge_adjacent_regions([memory_regions EXCEPT ![region_it].available = TRUE])
          IN [regions |-> m.regions, table |-> MapErase(allocation_table, address),
              underflow |-> m.underflow]

\* the outcome of free(address) in the current state
FreeResult(address) ==
  LET offset == (address - storage_area) \div unit_size
      region_it == FindRegion(memory_regions, offset, FALSE)
      NoChange == [regions |-> memory_regions, table |-> allocation_table, underflow |-> FALSE]
  IN IF address = NULL \/ ~validate_address(address) THEN NoChange
     ELSE IF address \notin DOMAIN allocation_table THEN NoChange
     ELSE IF region_it = 0 THEN NoChange
     ELSE LET m == merge_adjacent_regions([memory_regions EXCEPT ![region_it].available = TRUE])
          IN [regions |-> m.regions, table |-> MapErase(allocation_table, address),
              underflow |-> m.underflow]

Free(address) ==
  LET res == FreeResult(address) IN
  /\ memory_regions' = res.regions
  /\ allocation_table' = res.table
  /\ last' = Call("free", address, NULL)
  /\ live' = live \ {address}
  /\ roundtrip' = IF roundtrip.active /\ ~roundtrip.done /\ address = roundtrip.addr
                  THEN [roundtrip EXCEPT !.done = TRUE]
                  ELSE NoTrip
  /\ UNCHANGED <<unit_size, selector, storage_area, total_capacity, fit>>

Next ==
  \/ \E n \in Capacities, base \in Bases : Initialize(n, base)
  \/ Shutdown
  \/ \E s \in Strategies : SetAllocator(s)
  \/ \E b \in Requests : Allocate(b)
  \/ \E a \in Addresses : Free(a)

Spec == Init /\ [][Next]_vars

(* ------------- the strategies called directly on a snapshot ------------ *)
\* snapshots [count, pos1, size1, ...] of at most MaxHoles holes, sorted as
\* getList sorts them
RECURSIVE HoleLists(_)
HoleLists(n) ==
  IF n = 0 THEN {<<>>}
  ELSE {l \o <<p, e>> : l \in HoleLists(n - 1), p \in 0..MaxField, e \in 0..MaxField}

SortedHoles(l) ==
  \A i \in 1..(Len(l) \div 2 - 1) :
     ~PairLess(<<l[2 * i + 1], l[2 * i + 2]>>, <<l[2 * i - 1], l[2 * i]>>)

Snapshots ==
  UNION {{<<n>> \o l : l \in {h \in HoleLists(n) : SortedHoles(h)}} : n \in 0..MaxHoles}

InitFit ==
  /\ Constructed
  /\ \E w \in 1..(MaxField + 1), l \in Snapshots :
        fit = [sizeInWords |-> w, list |-> l, strategy |-> "none", result |-> 0]

RunBestFit ==
  /\ fit.strategy = "none"
  /\ fit' = [fit EXCEPT !.strategy = "bestFit", !.result = bestFit(fit.sizeInWords, fit.list)]
  /\ UNCHANGED <<unit_size, selector, storage_area, total_capacity, memory_regions,
                 allocation_table, last, live, roundtrip>>

RunWorstFit ==
  /\ fit.strategy = "none"
  /\ fit' = [fit EXCEPT !.strategy = "worstFit", !.result = worstFit(fit.sizeInWords, fit.list)]
  /\ UNCHANGED <<unit_size, selector, storage_area, total_capacity, memory_regions,
                 allocation_table, last, live, roundtrip>>

NextFit == RunBestFit \/ RunWorstFit

SpecFit == InitFit /\ [][NextFit]_vars

\* requests at the edges of size_t: sizeInBytes + unit_size - 1 wraps in
\* size_t (SIZE_MAX), and a word count that wraps to 0 in the int parameter
\* of the strategy (2^32 words in the source)
BigRequests == {SizeMod - 1, IntMod * 2}
\* the zero-length request
ZeroRequests == {0}

NextBig ==
  \/ \E n \in Capacities, base \in Bases : Initialize(n, base)
  \/ Shutdown
  \/ \E s \in Strategies : SetAllocator(s)
  \/ \E b \in ZeroRequests \cup {1} \cup BigRequests :
        Len(memory_regions) <= MaxBigRegions /\ Allocate(b)
  \/ \E a \in Addresses : Free(a)

SpecBig == Init /\ [][NextBig]_vars

(* ------------------- a strategy plugged in by the caller --------------- *)
\* selector is a std::function<int(int, void*)> supplied by the caller: its
\* return value is any int.  -1 is the "no fit" answer, the others are
\* taken as offsets.
PlugAnswers == (-2)..MaxAnswer

InitPlug ==
  /\ unit_size \in WordSizes
  /\ selector = "plugged"
  /\ storage_area = NULL
  /\ total_capacity = 0
  /\ memory_regions = <<>>
  /\ allocation_table = EmptyMap
  /\ live = {}
  /\ last = [op |-> "construct", arg |-> 0, ret |-> NULL, answer |-> 0,
             before |-> [regions |-> <<>>, table |-> EmptyMap, live |-> {}]]
  /\ roundtrip = NoTrip
  /\ fit = NoFit

\* allocate(sizeInBytes) when the plugged-in strategy returns answer
AllocatePlugged(sizeInBytes, answer) ==
  LET res == AllocateAt(sizeInBytes, answer) IN
  /\ selector = "plugged"
  /\ Len(res.regions) <= MaxRegions
  /\ \A i \in 1..Len(res.regions) : res.regions[i].position <= MaxPosition
  /\ memory_regions' = res.regions
  /\ allocation_table' = res.table
  /\ last' = CallWith("allocate", sizeInBytes, res.ret,
                      IF storage_area = NULL THEN 0 ELSE answer)
  /\ live' = IF res.ret = NULL THEN live ELSE live \cup {res.ret}
  /\ roundtrip' = NoTrip
  /\ UNCHANGED <<unit_size, selector, storage_area, total_capacity, fit>>

NextPlug ==
  \/ \E n \in Capacities, base \in Bases : Initialize(n, base)
  \/ Shutdown
  \/ \E b \in Requests, answer \in PlugAnswers : AllocatePlugged(b, answer)
  \/ \E a \in Addresses : Free(a)

SpecPlug == InitPlug /\ [][NextPlug]_vars

(* ------------- arenas wider than the fields of the free list ----------- *)
\* capacities that do not fit the uint16_t fields getList writes
WideCapacities == FieldMod..(FieldMod + MaxWide)

NextWide ==
  \/ \E n \in WideCapacities, base \in Bases : Initialize(n, base)
  \/ Shutdown
  \/ \E s \in Strategies : SetAllocator(s)
  \/ \E b \in Requests : Allocate(b)
  \/ \E a \in Addresses : Free(a)

SpecWide == Init /\ [][NextWide]_vars

(* ---------------------- properties of the ledger ---------------------- *)
RECURSIVE AllPairs(_)
AllPairs(regs) ==
  IF regs = <<>> THEN <<>>
  ELSE << <<Head(regs).position, Head(regs).extent>> >> \o AllPairs(Tail(regs))

RECURSIVE SumExtents(_)
SumExtents(regs) == IF regs = <<>> THEN 0 ELSE Head(regs).extent + SumExtents(Tail(regs))

\* the regions, taken in increasing position order, tile [0, n)
Tiles(regs, n) ==
  LET s == SortPairs(AllPairs(regs))
  IN /\ Len(s) >= 1
     /\ s[1][1] = 0
     /\ \A i \in 1..(Len(s) - 1) : s[i + 1][1] = s[i][1] + s[i][2]
     /\ s[Len(s)][1] + s[Len(s)][2] = n

\* two distinct free regions, the second starting where the first ends
AdjacentFreePair(regs) ==
  \E i, j \in 1..Len(regs) :
     /\ i # j
     /\ regs[i].available /\ regs[j].available
     /\ regs[i].position + regs[i].extent = regs[j].position

\* C1: after initialize(N), whatever allocate, free and setAllocator calls
\* follow, the regions taken in increasing position order tile the address
\* space: the first starts at word 0, each starts where the previous one
\* ends, the last ends at word N.
C1_RegionsTile == storage_area # NULL => Tiles(memory_regions, total_capacity)

\* C2: after initialize(N), whatever allocate and free calls follow, the
\* extents of the regions of the ledger add up to N.
C2_ExtentsSumToCapacity ==
  storage_area # NULL => SumExtents(memory_regions) = total_capacity

\* C3: when a free call has returned (valid or not), no two free regions are
\* neighbours in the address space.
C3_NoAdjacentFreeAfterFree == last.op = "free" => ~AdjacentFreePair(memory_regions)

\* the words a request of b bytes needs: ceil(b / wordSize), not wrapped
CeilWords(b) == (b + unit_size - 1) \div unit_size

\* b needs more words than any free region of regs has
Exhausted(b, regs) ==
  \A i \in 1..Len(regs) : regs[i].available => CeilWords(b) > regs[i].extent

\* C4: a successful allocate(n) from a state with no allocation outstanding
\* (empty index, every issued address freed), immediately followed by free of
\* the returned address, leaves the free-region list as getList returned it
\* before the allocate.
C4_RoundTrip == roundtrip.done => getList(memory_regions) = roundtrip.list

\* C5: allocate(b) with ceil(b / wordSize) greater than the extent of every
\* free region returns null and leaves the ledger and the index as they were,
\* under best-fit and under worst-fit.
C5_ExhaustionReturnsNull ==
  (last.op = "allocate" /\ Exhausted(last.arg, last.before.regions))
    => /\ last.ret = NULL
       /\ memory_regions = last.before.regions
       /\ allocation_table = last.before.table

\* C6: free(a) of an address that is not outstanding (null, outside the
\* arena, never returned by allocate, or returned and already freed) leaves
\* the ledger and the index as they were.
C6_InvalidFreeIsNoOp ==
  (last.op = "free" /\ last.arg \notin last.before.live)
    => /\ memory_regions = last.before.regions
       /\ allocation_table = last.before.table

\* a free of an address inside the arena that is not outstanding, while other
\* allocations are
C6_Witness ==
  /\ last.op = "free"
  /\ last.arg \notin last.before.live
  /\ validate_address(last.arg)
  /\ last.before.live # {}
  /\ \E i \in 1..Len(memory_regions) :
        /\ ~memory_regions[i].available
        /\ memory_regions[i].position = (last.arg - storage_area) \div unit_size

(* ------------------------------ getBitmap ----------------------------- *)
\* bits of one word of std::vector<bool> storage (libstdc++ _S_word_bit)
WordBit == 64

\* the indexes word_status[region.position + i] = false is applied to
FreeWords(regs) ==
  UNION {{regs[k].position + i : i \in 0..(regs[k].extent - 1)} :
           k \in {j \in 1..Len(regs) : regs[j].available}}

\* a write beyond the words word_status owns
BitmapOverrun(regs, capacity) ==
  \E w \in FreeWords(regs) : w >= WordBit * ((capacity + WordBit - 1) \div WordBit)

\* the bit of word w in the buffer getBitmap returns: byte 2 + w / 8, bit w % 8
BitmapBits(regs, capacity) ==
  [w \in 0..(capacity - 1) |-> IF w \in FreeWords(regs) THEN 0 ELSE 1]

\* every bitmap getBitmap can return: the computed one, or anything once a
\* write went beyond the storage of word_status
getBitmap(regs, capacity) ==
  IF BitmapOverrun(regs, capacity) THEN [0..(capacity - 1) -> {0, 1}]
  ELSE {BitmapBits(regs, capacity)}

InOccupied(regs, w) ==
  \E k \in 1..Len(regs) :
     /\ ~regs[k].available
     /\ regs[k].position <= w /\ w < regs[k].position + regs[k].extent

\* C7: for every word w in [0, capacity), bit w of the bitmap is 1 if and only
\* if w lies inside a region whose occupied flag is true.
C7_BitmapAgreement ==
  \A bm \in getBitmap(memory_regions, total_capacity) :
     \A w \in 0..(total_capacity - 1) :
        bm[w] = 1 <=> InOccupied(memory_regions, w)

\* the holes of a snapshot that can hold w words
Qualified(list, w) == {i \in 1..list[1] : HoleLen(list, i) >= w}

\* C8: bestFit returns the position of the hole with extent >= w of least
\* extent - w, the first such hole in position order on ties, and -1 exactly
\* when no hole has extent >= w.
C8_BestFitSelection ==
  fit.strategy = "bestFit" =>
    LET Q == Qualified(fit.list, fit.sizeInWords)
    IN /\ (fit.result = -1) <=> (Q = {})
       /\ Q # {} =>
            \E i \in Q :
               /\ fit.result = HolePos(fit.list, i)
               /\ \A j \in Q : HoleLen(fit.list, i) <= HoleLen(fit.list, j)
               /\ \A j \in Q : HoleLen(fit.list, j) = HoleLen(fit.list, i) => i <= j

\* three holes as in the example {10, 4, 7} with w = 5: the first fits with
\* more waste, the second does not fit, the third fits best; and a tie
C8_Witness ==
  /\ fit.strategy = "bestFit"
  /\ fit.list[1] = 3
  /\ HoleLen(fit.list, 1) > HoleLen(fit.list, 3)
  /\ HoleLen(fit.list, 3) >= fit.sizeInWords
  /\ HoleLen(fit.list, 2) < fit.sizeInWords
  /\ fit.result = HolePos(fit.list, 3)
  /\ HolePos(fit.list, 3) # HolePos(fit.list, 1)

\* C9: worstFit returns the position of the hole of greatest extent among
\* those with extent >= w, the first one in position order when several share
\* it, and -1 exactly when no hole has extent >= w.
C9_WorstFitSelection ==
  fit.strategy = "worstFit" =>
    LET Q == Qualified(fit.list, fit.sizeInWords)
    IN /\ (fit.result = -1) <=> (Q = {})
       /\ Q # {} =>
            \E i \in Q :
               /\ fit.result = HolePos(fit.list, i)
               /\ \A j \in Q : HoleLen(fit.list, i) >= HoleLen(fit.list, j)
               /\ \A j \in Q : HoleLen(fit.list, j) = HoleLen(fit.list, i) => i <= j

\* two holes share the greatest extent and the earlier one is returned
C9_Witness ==
  /\ fit.strategy = "worstFit"
  /\ fit.list[1] = 3
  /\ HoleLen(fit.list, 1) < HoleLen(fit.list, 2)
  /\ HoleLen(fit.list, 2) = HoleLen(fit.list, 3)
  /\ HoleLen(fit.list, 2) >= fit.sizeInWords
  /\ HolePos(fit.list, 2) # HolePos(fit.list, 3)
  /\ fit.result = HolePos(fit.list, 2)

\* C10: initialize(N), from any state, leaves exactly one free region (0, N),
\* an empty index and capacity N; free of any address is then a no-op.
C10_InitializeResets ==
  last.op = "initialize" =>
    /\ memory_regions = <<Region(0, last.arg, TRUE)>>
    /\ allocation_table = EmptyMap
    /\ total_capacity = last.arg
    /\ \A a \in Addresses :
          /\ FreeResult(a).regions = memory_regions
          /\ FreeResult(a).table = allocation_table

\* a re-initialization of a fragmented ledger with allocations outstanding
C10_Witness ==
  /\ last.op = "initialize"
  /\ Len(last.before.regions) >= 3
  /\ Cardinality(DOMAIN last.before.table) >= 2
  /\ memory_regions = <<Region(0, last.arg, TRUE)>>

\* C11: allocate called while no arena exists (before the first initialize,
\* or after shutdown) returns null for every request size; the ledger and
\* the index are empty before the call and empty after it.
C11_UninitializedAllocate ==
  (last.op = "allocate" /\ storage_area = NULL)
    => /\ last.ret = NULL
       /\ last.before.regions = <<>> /\ last.before.table = EmptyMap
       /\ memory_regions = <<>> /\ allocation_table = EmptyMap

\* an allocate on a manager without arena, for the largest request
C11_Witness ==
  /\ last.op = "allocate"
  /\ storage_area = NULL
  /\ last.arg = MaxBytes
  /\ last.ret = NULL

(* ------------------------ allocate's effect ---------------------------- *)
\* the hole of a snapshot the strategy s selects for w words: the first one
\* of least extent (bestFit), of greatest extent (worstFit), among the holes
\* with extent >= w; 0 when there is none
SelectedHole(s, w, list) ==
  LET Q == Qualified(list, w)
      Better(i, j) == IF s = "bestFit" THEN HoleLen(list, i) < HoleLen(list, j)
                      ELSE HoleLen(list, i) > HoleLen(list, j)
  IN IF Q = {} THEN 0
     ELSE CHOOSE i \in Q : \A j \in Q : ~Better(j, i) /\ (j < i => Better(i, j))

\* how many regions of regs equal r
Count(regs, r) == Cardinality({i \in 1..Len(regs) : regs[i] = r})

Indicator(cond) == IF cond THEN 1 ELSE 0

\* C12: when allocate(b) succeeds, with w = ceil(b / wordSize) and (p, e) the
\* free region the strategy selected: the address returned is base + p *
\* wordSize, the index maps it to b, the ledger holds the occupied region
\* (p, w) in place of (p, e), a new free region (p + w, e - w) if and only if
\* e > w, and every other region as before.
C12_AllocatePostCondition ==
  (last.op = "allocate" /\ last.ret # NULL) =>
    LET before == last.before.regions
        list == getList(before)
        w == CeilWords(last.arg)
        h == SelectedHole(selector, w, list)
        p == HolePos(list, h)
        e == HoleLen(list, h)
        chosen == Region(p, e, TRUE)
        occupied == Region(p, w, FALSE)
        remainder == Region(p + w, e - w, TRUE)
    IN /\ h # 0
       /\ last.ret = storage_area + p * unit_size
       /\ last.ret \in DOMAIN allocation_table
       /\ allocation_table[last.ret] = last.arg
       /\ Len(memory_regions) = Len(before) + Indicator(e > w)
       /\ \A r \in {memory_regions[i] : i \in 1..Len(memory_regions)}
                   \cup {before[i] : i \in 1..Len(before)} :
                Count(memory_regions, r) =
                  Count(before, r) - Indicator(r = chosen) + Indicator(r = occupied)
                    + Indicator(e > w /\ r = remainder)

\* C13: in every reachable state the regions are stored in strictly
\* increasing position order (the remainder of a split sits right behind the
\* region it was split from).
C13_LedgerOrdered ==
  \A i \in 1..(Len(memory_regions) - 1) :
     memory_regions[i].position < memory_regions[i + 1].position

(* -------------------------- free's effect ------------------------------ *)
\* the region free(address) releases in regs (0: the call changes nothing)
FreedRegion(regs, table, address) ==
  IF address = NULL \/ ~validate_address(address) \/ address \notin DOMAIN table THEN 0
  ELSE FindRegion(regs, (address - storage_area) \div unit_size, FALSE)

\* region j of regs is free and starts where region k ends, or ends where it
\* starts
Borders(regs, k, j) ==
  /\ j # k
  /\ regs[j].available
  /\ \/ regs[j].position + regs[j].extent = regs[k].position
     \/ regs[k].position + regs[k].extent = regs[j].position

\* regions other than the freed one and its free neighbours are kept
C14_Frame ==
  LET before == last.before.regions
      k == FreedRegion(before, last.before.table, last.arg)
  IN (last.op = "free" /\ k # 0) =>
       \A j \in 1..Len(before) :
          (j # k /\ ~Borders(before, k, j)) =>
             Count(memory_regions, before[j]) >= Count(before, before[j])
                - Indicator(before[j] = [before[k] EXCEPT !.available = TRUE])

\* without a free neighbour only the flag of the freed region changes
C14_NoNeighbour ==
  LET before == last.before.regions
      k == FreedRegion(before, last.before.table, last.arg)
  IN (last.op = "free" /\ k # 0 /\ \A j \in 1..Len(before) : ~Borders(before, k, j)) =>
       memory_regions = [before EXCEPT ![k].available = TRUE]

\* a second run of the merge changes nothing
C14_Idempotent ==
  (last.op = "free" /\ FreedRegion(last.before.regions, last.before.table, last.arg) # 0)
    => merge_adjacent_regions(memory_regions).regions = memory_regions

\* C14: a valid free(a) changes only the freed region and the free regions
\* bordering it in the address space; when neither neighbour is free, only
\* the flag of the freed region changes; running the merge again never
\* changes the ledger.
C14_MergeLocality == C14_Frame /\ C14_NoNeighbour /\ C14_Idempotent

\* C15: allocate(0) on a manager with a free region occupies a region of
\* extent 1; no region of extent 0 ever appears in the ledger and no two
\* regions ever share a position.
C15_ZeroLengthRequest ==
  /\ (last.op = "allocate" /\ last.arg = 0 /\ last.ret # NULL) =>
        \E i \in 1..Len(memory_regions) :
           memory_regions[i] = Region((last.ret - storage_area) \div unit_size, 1, FALSE)
  /\ \A i \in 1..Len(memory_regions) : memory_regions[i].extent # 0
  /\ \A i, j \in 1..Len(memory_regions) :
        i # j => memory_regions[i].position # memory_regions[j].position

\* C16: with an arbitrary strategy, allocate either returns null and leaves
\* ledger and index as they were, or marks occupied a region that was free
\* and whose extent is at least ceil(byteSize / wordSize); it returns null
\* whenever the strategy's answer is not the position of a free region.
C16_PluggedStrategyIsSafe ==
  (last.op = "allocate" /\ selector = "plugged") =>
    LET before == last.before.regions
        w == CeilWords(last.arg)
        WasFree(i) == before[i].available
        Taken(i) == /\ WasFree(i)
                    /\ before[i].extent >= w
                    /\ ~memory_regions[i].available
                    /\ memory_regions[i].position = before[i].position
                    /\ \A j \in 1..Len(before) :
                          j # i => memory_regions[j] = before[j]
    IN /\ \/ /\ last.ret = NULL
             /\ memory_regions = before
             /\ allocation_table = last.before.table
          \/ /\ last.ret # NULL
             /\ \E i \in 1..Len(before) : Taken(i)
       /\ (storage_area # NULL
             /\ ~\E i \in 1..Len(before) : WasFree(i) /\ before[i].position = last.answer)
            => last.ret = NULL

\* C17: on a manager of capacity >= 2^FieldBits words, allocate decides on
\* the true positions and extents: whenever a free region of extent >= the
\* words needed exists it succeeds, and the address it returns is base +
\* position * wordSize of such a region.
C17_WideArena ==
  (last.op = "allocate" /\ storage_area # NULL /\ total_capacity >= FieldMod) =>
    LET before == last.before.regions
        w == CeilWords(last.arg)
        Fits(i) == before[i].available /\ before[i].extent >= w
    IN (\E i \in 1..Len(before) : Fits(i)) =>
         /\ last.ret # NULL
         /\ \E i \in 1..Len(before) :
               Fits(i) /\ last.ret = storage_area + before[i].position * unit_size

(* ------------------------ outstanding allocations ---------------------- *)
\* the words of the allocation at address a: from its offset, as many as its
\* recorded byte size needs
LiveWords(a) ==
  LET offset == (a - storage_area) \div unit_size
  IN offset..(offset + CeilWords(allocation_table[a]) - 1)

\* C18: the allocations returned by allocate and not yet freed never overlap
\* (no address is handed out while it is outstanding, the word ranges of two
\* outstanding allocations are disjoint) and each lies inside [0, capacity).
C18_LiveAllocationsDisjoint ==
  /\ (last.op = "allocate" /\ last.ret # NULL) => last.ret \notin last.before.live
  /\ \A a \in live :
        /\ a \in DOMAIN allocation_table
        /\ LiveWords(a) \subseteq 0..(total_capacity - 1)
  /\ \A a, b \in live : a # b => LiveWords(a) \cap LiveWords(b) = {}

\* the occupied regions of the ledger at position p
OccupiedAt(p) ==
  {i \in 1..Len(memory_regions) :
      ~memory_regions[i].available /\ memory_regions[i].position = p}

\* C19: the index and the occupied regions correspond one to one: base + p *
\* wordSize is a key of the index if and only if the ledger holds exactly one
\* occupied region at position p, and its extent is ceil(recorded byteSize /
\* wordSize).
C19_IndexLedgerAgreement ==
  /\ \A a \in DOMAIN allocation_table :
        LET p == (a - storage_area) \div unit_size
        IN /\ a = storage_area + p * unit_size
           /\ Cardinality(OccupiedAt(p)) = 1
           /\ \A i \in OccupiedAt(p) :
                 memory_regions[i].extent = CeilWords(allocation_table[a])
  /\ \A i \in 1..Len(memory_regions) :
        ~memory_regions[i].available =>
           /\ storage_area + memory_regions[i].position * unit_size
                 \in DOMAIN allocation_table
           /\ Cardinality(OccupiedAt(memory_regions[i].position)) = 1

\* C20: after initialize(N), whenever the index is empty and every address
\* returned by allocate has been freed, the ledger is the single free region
\* (0, N).
C20_FullRecovery ==
  (storage_area # NULL /\ allocation_table = EmptyMap /\ live = {})
    => memory_regions = <<Region(0, total_capacity, TRUE)>>

====
